---- MODULE Spec2Model ----
(***************************************************************************)
(* astmonkey/visitors.py: the source generator node visitor.               *)
(*                                                                         *)
(* One render (to_source) is modelled as a machine over an explicit work   *)
(* stack: the recursion of ast.NodeVisitor.visit is unfolded, a visit_<K>  *)
(* handler replaces the node on top of the stack by the calls the handler  *)
(* makes, in order (write, newline, body entry and exit, nested visits).   *)
(* The output buffer is the list self.result of the source: a sequence of  *)
(* string fragments.  Strings of the input tree hold no line break, so the *)
(* only fragment that holds one is the "\n" written by write_newline.      *)
(***************************************************************************)
EXTENDS Integers, Sequences, FiniteSets, TLC

VARIABLES
    root,         \* the node handed to visit (read-only)
    version,      \* the visitor class in use: 0 = Base, 1 = Python26 .. 9 = Python36
    result,       \* self.result
    indentation,  \* self.indentation
    new_line,     \* self.new_line
    stack,        \* the calls still to be made, innermost first
    status,       \* "running", "done" (to_source returned) or "error" (an exception left it)
    output,       \* the text to_source returned
    pendingTag,   \* history: the statement whose first text is still to be written
    mark,         \* history: where the text of the last statement started
    rec,          \* history: the last line reconciliation (write or newline)
    applied,      \* history: the rules the last dispatch resolved, with their classes
    fell,         \* history: the node kinds that were left to generic_visit
    blocks        \* history: the body() calls under way and the last one that returned

vars == <<root, version, result, indentation, new_line, stack, status, output,
          pendingTag, mark, rec, applied, fell, blocks>>

-----------------------------------------------------------------------------
(* Bounds of the input trees *)

MaxLine == 3
MaxStmts == 2
MaxArgs == 2
MaxCallArgs == 2
MaxBases == 2
MaxClassKw == 1
MaxElts == 2
MaxAliases == 2
MaxNest == 2

-----------------------------------------------------------------------------
(* The visitor classes *)

Base == 0
V26 == 1
V27 == 2
V30 == 3
V31 == 4
V32 == 5
V33 == 6
V34 == 7
V35 == 8
V36 == 9
Versions == V26..V36

(* The rules each class defines itself; every other rule is inherited *)
BaseRules ==
    {"visit_Assign", "visit_AugAssign", "visit_ImportFrom", "visit_Import",
     "visit_Expr", "visit_keyword", "visit_FunctionDef", "visit_ClassDef",
     "visit_If", "visit_For", "visit_While", "visit_Pass", "visit_Print",
     "visit_Delete", "visit_Global", "visit_Nonlocal", "visit_Return",
     "visit_Break", "visit_Continue", "visit_Raise", "visit_Attribute",
     "visit_Call", "visit_Name", "visit_str", "visit_Str", "visit_Bytes",
     "visit_Num", "visit_Tuple", "visit_List", "visit_Set", "visit_Dict",
     "visit_BinOp", "visit_BoolOp", "visit_Compare", "visit_UnaryOp",
     "visit_Subscript", "visit_Slice", "visit_ExtSlice", "visit_Yield",
     "visit_Lambda", "visit_Ellipsis", "visit_ListComp", "visit_GeneratorExp",
     "visit_SetComp", "visit_DictComp", "visit_IfExp", "visit_Starred",
     "visit_Repr", "visit_alias", "visit_comprehension", "visit_ExceptHandler",
     "visit_arg", "visit_Assert", "visit_TryExcept", "visit_TryFinally",
     "visit_With", "signature", "signature_kwarg", "signature_vararg",
     "signature_arg", "decorators", "function_definition", "for_loop",
     "call_signature", "docstring", "body", "body_or_else"}

OwnRules(cls) ==
    CASE cls = Base -> BaseRules
      [] cls = V30 -> {"visit_ClassDef", "signature_arg", "visit_FunctionDef"}
      [] cls = V33 -> {"visit_Try", "visit_With", "visit_YieldFrom"}
      [] cls = V34 -> {"visit_NameConstant", "visit_Name", "signature_vararg",
                       "signature_kwarg"}
      [] cls = V35 -> {"visit_AsyncFunctionDef", "visit_AsyncFor", "visit_Await",
                       "call_signature"}
      [] cls = V36 -> {"visit_JoinedStr", "visit_FormattedValue"}
      [] OTHER -> {}

(* The class a class derives from; Base derives from ast.NodeVisitor *)
NodeVisitor == 0 - 1
Parent(cls) == cls - 1

(* Attribute lookup along the inheritance chain: the class that defines    *)
(* the rule, NodeVisitor when none does (visit then calls generic_visit)   *)
(* the C6 mutant: the search starts at the base class *)
Lookup_oldest(cls, rule) ==
    IF \E c \in Base..cls : rule \in OwnRules(c)
    THEN CHOOSE c \in Base..cls :
            rule \in OwnRules(c) /\ \A o \in Base..cls : rule \in OwnRules(o) => c <= o
    ELSE NodeVisitor

RECURSIVE Lookup(_, _)
Lookup(cls, rule) ==
    IF cls = NodeVisitor THEN NodeVisitor
    ELSE IF rule \in OwnRules(cls) THEN cls
    ELSE Lookup(Parent(cls), rule)

HasRule(rule) == Lookup(version, rule) # NodeVisitor

-----------------------------------------------------------------------------
(* Input trees.  A node is a record with its kind, its line number         *)
(* (NoLine when the node carries none) and the fields of its kind.         *)

NoLine == 0
None == [kind |-> "None", lineno |-> NoLine]
NoArg == "<None>"

Name(id, l) == [kind |-> "Name", id |-> id, lineno |-> l]
Str(s, l) == [kind |-> "Str", s |-> s, lineno |-> l]
Pass(l) == [kind |-> "Pass", lineno |-> l]
Expr(value, l) == [kind |-> "Expr", value |-> value, lineno |-> l]
If(test, b, orelse, l) ==
    [kind |-> "If", test |-> test, body |-> b, orelse |-> orelse, lineno |-> l]
Module(b) == [kind |-> "Module", body |-> b, lineno |-> NoLine]
Num(n, l) == [kind |-> "Num", n |-> n, lineno |-> l]
Arg(a, annotation, l) ==
    [kind |-> "arg", arg |-> a, annotation |-> annotation, lineno |-> l]
(* a plain string held by a field that holds a node in later grammars *)
PlainStr(s) == [kind |-> "str", s |-> s, lineno |-> NoLine]
Arguments(args, defaults, vararg, kwarg) ==
    [kind |-> "arguments", args |-> args, defaults |-> defaults,
     vararg |-> vararg, kwarg |-> kwarg, lineno |-> NoLine]
Lambda(args, b, l) == [kind |-> "Lambda", args |-> args, body |-> b, lineno |-> l]
FunctionDef(name, args, b, decorator_list, returns, l) ==
    [kind |-> "FunctionDef", name |-> name, args |-> args, body |-> b,
     decorator_list |-> decorator_list, returns |-> returns, lineno |-> l]
AsyncFunctionDef(name, args, b, decorator_list, returns, l) ==
    [kind |-> "AsyncFunctionDef", name |-> name, args |-> args, body |-> b,
     decorator_list |-> decorator_list, returns |-> returns, lineno |-> l]
(* the grammars before 3.0 give a class no keywords field *)
ClassDef2(name, bases, b, decorator_list, l) ==
    [kind |-> "ClassDef", name |-> name, bases |-> bases, body |-> b,
     decorator_list |-> decorator_list, lineno |-> l]
ClassDef(name, bases, keywords, b, decorator_list, l) ==
    [kind |-> "ClassDef", name |-> name, bases |-> bases, keywords |-> keywords,
     body |-> b, decorator_list |-> decorator_list, lineno |-> l]
Keyword(a, value) == [kind |-> "keyword", arg |-> a, value |-> value, lineno |-> NoLine]
Starred(value, l) == [kind |-> "Starred", value |-> value, lineno |-> l]
(* the grammars before 3.5 give a call the fields starargs and kwargs *)
Call2(func, args, keywords, starargs, kwargs, l) ==
    [kind |-> "Call", func |-> func, args |-> args, keywords |-> keywords,
     starargs |-> starargs, kwargs |-> kwargs, lineno |-> l]
Call(func, args, keywords, l) ==
    [kind |-> "Call", func |-> func, args |-> args, keywords |-> keywords,
     lineno |-> l]
Await(value, l) == [kind |-> "Await", value |-> value, lineno |-> l]
YieldFrom(value, l) == [kind |-> "YieldFrom", value |-> value, lineno |-> l]
NameConstant(value, l) == [kind |-> "NameConstant", value |-> value, lineno |-> l]
FormattedValue(value, l) ==
    [kind |-> "FormattedValue", value |-> value, format_spec |-> None, lineno |-> l]
JoinedStr(values, l) == [kind |-> "JoinedStr", values |-> values, lineno |-> l]
ExceptHandler(type, name, b, l) ==
    [kind |-> "ExceptHandler", type |-> type, name |-> name, body |-> b, lineno |-> l]
Alias(name, asname) == [kind |-> "alias", name |-> name, asname |-> asname]
Import(names, l) == [kind |-> "Import", names |-> names, lineno |-> l]

Sequence(kind, elts, l) == [kind |-> kind, elts |-> elts, lineno |-> l]

Try(b, handlers, orelse, finalbody, l) ==
    [kind |-> "Try", body |-> b, handlers |-> handlers, orelse |-> orelse,
     finalbody |-> finalbody, lineno |-> l]

StmtKinds == {"Pass", "Expr", "If", "FunctionDef", "ClassDef", "Try",
              "AsyncFunctionDef", "Import"}

LineNos == 1..MaxLine

SimpleStmts ==
    {Pass(l) : l \in LineNos} \cup {Expr(Str("s", l), l) : l \in LineNos}

IfStmts == {If(Name("x", l), <<Pass(b)>>, <<>>, l) : l, b \in LineNos}

Stmts == SimpleStmts \cup IfStmts

RECURSIVE SeqsUpTo(_, _)
SeqsUpTo(S, n) ==
    IF n = 0 THEN {<<>>}
    ELSE LET shorter == SeqsUpTo(S, n - 1)
         IN shorter \cup {Append(q, x) : q \in shorter, x \in S}

LayoutTrees == {Module(b) : b \in SeqsUpTo(Stmts, MaxStmts)}

(* Function signatures: n parameters of one style, the last dn of them     *)
(* with a default, and the variadic parameters in either grammar's shape   *)
ParamNames == <<"a", "b", "c", "d">>
ParamStyles == {"Name", "arg", "annotated"}

Param(i, style) ==
    IF style = "Name" THEN Name(ParamNames[i], 1)
    ELSE Arg(ParamNames[i], IF style = "annotated" THEN Name("int", 1) ELSE None, 1)

VariadicShapes(name) == {None, PlainStr(name), Arg(name, None, 1)}

SigArguments ==
    UNION {
        {Arguments([i \in 1..n |-> Param(i, style)], [j \in 1..dn |-> Num(j, 1)],
                   vararg, kwarg) :
            dn \in 0..n, style \in ParamStyles,
            vararg \in VariadicShapes("args"), kwarg \in VariadicShapes("kwargs")} :
        n \in 0..MaxArgs}

SigTrees ==
    {Lambda(a, Name("x", 1), 1) : a \in SigArguments}
    \cup {FunctionDef("f", a, <<Pass(2)>>, <<>>, None, 1) : a \in SigArguments}

(* Definitions with a decorator, every node on any line *)
NoArguments == Arguments(<<>>, <<>>, None, None)

DecoratorLists == {<<>>} \cup {<<Name("d", l)>> : l \in LineNos}

DefTrees ==
    {FunctionDef("f", NoArguments, <<Pass(b)>>, dl, None, l) :
        l \in LineNos, b \in LineNos, dl \in DecoratorLists}

(* Calls: each positional argument plain or starred, each keyword named or *)
(* a spread, with and without the fields starargs and kwargs               *)
ArgKinds == {"plain", "starred"}
KeywordKinds == {"named", "spread"}

CallArg(i, k) ==
    IF k = "plain" THEN Name("p" \o ToString(i), 1)
    ELSE Starred(Name("s" \o ToString(i), 1), 1)

CallKeyword(i, k) ==
    Keyword(IF k = "named" THEN "k" \o ToString(i) ELSE NoArg, Name("v" \o ToString(i), 1))

CallArgLists == {[i \in 1..Len(q) |-> CallArg(i, q[i])] : q \in SeqsUpTo(ArgKinds, MaxCallArgs)}
CallKeywordLists ==
    {[i \in 1..Len(q) |-> CallKeyword(i, q[i])] : q \in SeqsUpTo(KeywordKinds, MaxCallArgs)}

CallTrees ==
    {Call2(Name("f", 1), args, keywords, starargs, kwargs, 1) :
        args \in CallArgLists, keywords \in CallKeywordLists,
        starargs \in {None, Name("sa", 1)}, kwargs \in {None, Name("ka", 1)}}
    \cup {Call(Name("f", 1), args, keywords, 1) :
            args \in CallArgLists, keywords \in CallKeywordLists}

(* Classes: positional bases and keyword base arguments *)
KeywordNames == <<"meta", "kw2", "kw3">>
KeywordValues == <<"M", "V2", "V3">>

Bases(n) == [i \in 1..n |-> Name("Base" \o ToString(i), 1)]
ClassKeywords(n) == [i \in 1..n |-> Keyword(KeywordNames[i], Name(KeywordValues[i], 1))]

ClassTrees ==
    {ClassDef("C", Bases(n), ClassKeywords(k), <<Pass(2)>>, <<>>, 1) :
        n \in 0..MaxBases, k \in 0..MaxClassKw}
    \cup {ClassDef2("C", Bases(n), <<Pass(2)>>, <<>>, 1) : n \in 0..MaxBases}

(* Sequence literals of n elements *)
Elts(n) == [i \in 1..n |-> Name("e" \o ToString(i), 1)]

SequenceKinds == {"Tuple", "List", "Set"}

SequenceTrees == {Sequence(k, Elts(n), 1) : k \in SequenceKinds, n \in 0..MaxElts}

(* Import statements of k aliases, each with or without an asname, alone  *)
(* and after another statement                                             *)
AliasShapes == {"plain", "renamed"}

ImportAlias(i, shape) ==
    Alias("m" \o ToString(i), IF shape = "renamed" THEN "n" \o ToString(i) ELSE NoArg)

AliasLists ==
    {[i \in 1..Len(q) |-> ImportAlias(i, q[i])] : q \in SeqsUpTo(AliasShapes, MaxAliases)}

ImportTrees ==
    {Import(names, 1) : names \in AliasLists}
    \cup {Module(<<Pass(1), Import(names, 2)>>) : names \in AliasLists}

(* Blocks: if statements nested n deep with an else branch at every level, *)
(* an elif chain, empty statement lists, a block inside a definition       *)
RECURSIVE NestedIf(_)
NestedIf(n) ==
    IF n = 0 THEN Pass(1)
    ELSE If(Name("x", 1), <<NestedIf(n - 1)>>, <<NestedIf(n - 1)>>, 1)

RECURSIVE ElifChain(_)
ElifChain(n) ==
    IF n = 0 THEN Pass(1)
    ELSE If(Name("x", 1), <<Pass(1)>>, <<ElifChain(n - 1)>>, 1)

BlockTrees ==
    {Module(<<NestedIf(n), Pass(1)>>) : n \in 1..MaxNest}
    \cup {Module(<<ElifChain(n), Pass(1)>>) : n \in 1..(MaxNest + 1)}
    \cup {Module(<<If(Name("x", 1), <<>>, <<>>, 1), Pass(1)>>),
          Module(<<If(Name("x", 1), <<>>, <<Pass(1), Pass(1)>>, 1)>>),
          Module(<<FunctionDef("f", NoArguments, <<NestedIf(1)>>, <<>>, None, 1)>>),
          Module(<<ClassDef2("C", <<>>, <<FunctionDef("f", NoArguments, <<>>, <<>>,
                                                       None, 1)>>, <<>>, 1)>>)}

(* Node kinds that only the later classes have a rule for *)
OneParam == Arguments(<<Arg("a", None, 1)>>, <<>>, None, None)

DialectTrees ==
    {Await(Name("x", 1), 1),
     YieldFrom(Name("x", 1), 1),
     NameConstant("True", 1),
     FormattedValue(Name("x", 1), 1),
     JoinedStr(<<Str("s", 1), FormattedValue(Name("x", 1), 1)>>, 1),
     Module(<<Expr(Await(Name("x", 1), 1), 1)>>),
     Module(<<Expr(YieldFrom(Name("x", 1), 1), 1)>>),
     Module(<<Try(<<Pass(2)>>, <<>>, <<>>, <<Pass(4)>>, 1)>>),
     Module(<<Try(<<Pass(2)>>, <<ExceptHandler(None, None, <<Pass(4)>>, 3)>>,
                  <<>>, <<>>, 1)>>),
     Module(<<Try(<<Pass(2)>>, <<ExceptHandler(Name("E", 3), Name("e", 3), <<Pass(4)>>, 3)>>,
                  <<>>, <<Pass(6)>>, 1)>>),
     Module(<<AsyncFunctionDef("f", OneParam, <<Pass(2)>>, <<>>, None, 1)>>)}

(* Trees rendered under every class of the chain *)
DialectSensitiveTrees ==
    SigTrees \cup DefTrees \cup CallTrees \cup ClassTrees \cup DialectTrees
    \cup SequenceTrees \cup ImportTrees \cup BlockTrees

-----------------------------------------------------------------------------
(* Text helpers *)

IndentWith == "    "

RECURSIVE Times(_, _)
Times(s, n) == IF n <= 0 THEN "" ELSE s \o Times(s, n - 1)

RECURSIVE Join(_)
Join(frags) == IF frags = <<>> THEN "" ELSE Head(frags) \o Join(Tail(frags))

RECURSIVE CountNl(_)
CountNl(frags) ==
    IF frags = <<>> THEN 0
    ELSE (IF Head(frags) = "\n" THEN 1 ELSE 0) + CountNl(Tail(frags))

(* len("".join(self.result).split('\n')) if self.result else 0 *)
Lines(res) == IF res # <<>> THEN CountNl(res) + 1 ELSE 0

-----------------------------------------------------------------------------
(* Line reconciliation: pure functions of the buffer state *)

(* hasattr(node, arg_name) and getattr(node, arg_name) is not None; a     *)
(* list field of the input trees is never None                             *)
is_node_args_valid(node, arg_name) ==
    /\ arg_name \in DOMAIN node
    /\ CASE arg_name = "lineno" -> node.lineno # NoLine
         [] arg_name = "arg" -> node.arg # NoArg
         [] arg_name \in {"keywords", "values"} -> TRUE
         [] OTHER -> node[arg_name] # None

(* the C4 mutant: the line break is written into the empty buffer too *)
write_newline_always_breaks(res, ind) ==
    Append(res, "\n") \o <<Times(IndentWith, ind)>>

write_newline(res, ind) ==
    (IF res # <<>> THEN Append(res, "\n") ELSE res) \o <<Times(IndentWith, ind)>>

(* range(n): no iteration for n <= 0 *)
RangeLen(n) == IF n > 0 THEN n ELSE 0

RECURSIVE Repeat_write_newline(_, _, _)
Repeat_write_newline(res, ind, n) ==
    IF n = 0 THEN res ELSE Repeat_write_newline(write_newline(res, ind), ind, n - 1)

(* the C3 mutant: the line number of the node is not looked at *)
add_missing_lines_never(res, ind, node) == res

(* the C5 mutant: a negative difference writes line breaks as well *)
add_missing_lines_abs(res, ind, node) ==
    LET lines == Lines(res)
        line_diff == node.lineno - lines
    IN Repeat_write_newline(res, ind, IF line_diff < 0 THEN 0 - line_diff ELSE line_diff)

add_missing_lines(res, ind, node) ==
    LET lines == Lines(res)
        line_diff == node.lineno - lines
    IN IF line_diff # 0 THEN Repeat_write_newline(res, ind, RangeLen(line_diff))
       ELSE res

(* the buffer and the flag after correct_line_number(node) *)
correct_line_number(res, ind, nl, node) ==
    LET r1 == IF nl THEN write_newline(res, ind) ELSE res
        r2 == IF node # None /\ is_node_args_valid(node, "lineno")
              THEN add_missing_lines(r1, ind, node) ELSE r1
    IN [result |-> r2, new_line |-> IF r2 # res THEN FALSE ELSE nl]

-----------------------------------------------------------------------------
(* The calls a handler makes, as entries of the work stack *)

NoPrev == 0 - 1

W(x, node) == [op |-> "write", x |-> x, node |-> node]
NL(node) == [op |-> "newline", node |-> node]
V(node, d, prev) == [op |-> "visit", node |-> node, depth |-> d, prev |-> prev]
BodyEnter == [op |-> "body_enter"]
BodyExit == [op |-> "body_exit"]
Raise(exc) == [op |-> "raise", exc |-> exc]

(* visit(child) for each child of a list; d is the nesting depth of the    *)
(* children in the input tree, prev the line of the preceding sibling      *)
VisitAll(nodes, d) ==
    [i \in 1..Len(nodes) |->
        V(nodes[i], d, IF i = 1 THEN NoPrev ELSE nodes[i - 1].lineno)]

(* the C12 mutant: the indentation is not restored *)
body_without_restore(statements, d) == <<BodyEnter>> \o VisitAll(statements, d + 1)

body(statements, d) == <<BodyEnter>> \o VisitAll(statements, d + 1) \o <<BodyExit>>

docstring(node) == <<W("\"\"\"" \o node.s \o "\"\"\"", None)>>

(* repr of a string without quotes or escapes *)
repr_str(s) == "'" \o s \o "'"

(* ast.NodeVisitor.generic_visit: visit every child node, in field order *)
generic_visit(node, d) ==
    CASE node.kind = "Module" -> VisitAll(node.body, d)
      [] node.kind = "Expr" -> <<V(node.value, d, NoPrev)>>
      [] node.kind \in {"Await", "YieldFrom", "FormattedValue"} ->
            IF node.value # None THEN <<V(node.value, d, NoPrev)>> ELSE <<>>
      [] node.kind = "JoinedStr" -> VisitAll(node.values, d)
      [] node.kind = "Try" ->
            VisitAll(node.body, d + 1) \o VisitAll(node.handlers, d)
            \o VisitAll(node.orelse, d + 1) \o VisitAll(node.finalbody, d + 1)
      [] node.kind = "AsyncFunctionDef" ->
            <<V(node.args, d, NoPrev)>> \o VisitAll(node.body, d + 1)
            \o VisitAll(node.decorator_list, d)
            \o (IF node.returns # None THEN <<V(node.returns, d, NoPrev)>> ELSE <<>>)
      [] node.kind = "arguments" ->
            VisitAll(node.args, d)
            \o (IF node.vararg.kind = "arg" THEN <<V(node.vararg, d, NoPrev)>> ELSE <<>>)
            \o (IF node.kwarg.kind = "arg" THEN <<V(node.kwarg, d, NoPrev)>> ELSE <<>>)
            \o VisitAll(node.defaults, d)
      [] OTHER -> <<>>

visit_Pass(node, d) == <<NL(node), W("pass", node)>>

visit_Expr(node, d) ==
    IF node.value.kind = "Str" THEN docstring(node.value)
    ELSE <<NL(node)>> \o generic_visit(node, d)

visit_Name(node, d) == <<W(node.id, node)>>

visit_Str(node, d) == <<W(repr_str(node.s), None)>>

RECURSIVE if_orelse(_, _)
if_orelse(orelse, d) ==
    IF orelse = <<>> THEN <<>>
    ELSE IF Len(orelse) = 1 /\ orelse[1].kind = "If"
    THEN <<NL(None), W("elif ", None), V(orelse[1].test, d, NoPrev), W(":", None)>>
         \o body(orelse[1].body, d) \o if_orelse(orelse[1].orelse, d)
    ELSE <<NL(None), W("else:", None)>> \o body(orelse, d)

visit_If(node, d) ==
    <<NL(node), W("if ", None), V(node.test, d, NoPrev), W(":", None)>>
    \o body(node.body, d) \o if_orelse(node.orelse, d)

(* repr of a small non-negative integer *)
repr_num(n) == ToString(n)

visit_Num(node, d) == <<W(repr_num(node.n), None)>>

visit_arg(node, d) == <<W(node.arg, None)>>

visit_Starred(node, d) == <<W("*", None), V(node.value, d, NoPrev)>>

visit_keyword(node, d) ==
    (IF is_node_args_valid(node, "arg") THEN <<W(node.arg \o "=", None)>>
     ELSE <<W("**", None)>>)
    \o <<V(node.value, d, NoPrev)>>

(* the C8 mutant: the first call writes the separator too *)
write_comma_always(want_comma) == <<W(", ", None)>>

(* write_comma(): nothing on the first call, ', ' on every later one *)
write_comma(want_comma) == IF want_comma THEN <<W(", ", None)>> ELSE <<>>

signature_arg_Base(arg, default, want_comma, d) ==
    write_comma(want_comma) \o <<V(arg, d, NoPrev)>>
    \o (IF default # None THEN <<W("=", None), V(default, d, NoPrev)>> ELSE <<>>)

signature_arg_30(arg, default, want_comma, d) ==
    signature_arg_Base(arg, default, want_comma, d)
    \o (IF is_node_args_valid(arg, "annotation")
        THEN <<W(": ", None), V(arg.annotation, d, NoPrev)>> ELSE <<>>)

signature_arg(arg, default, want_comma, d) ==
    IF Lookup(version, "signature_arg") = V30
    THEN signature_arg_30(arg, default, want_comma, d)
    ELSE signature_arg_Base(arg, default, want_comma, d)

(* '*' + node.vararg: the operand must be a string *)
signature_vararg_Base(node, want_comma) ==
    IF node.vararg # None
    THEN write_comma(want_comma)
         \o (IF node.vararg.kind = "str" THEN <<W("*" \o node.vararg.s, None)>>
             ELSE <<Raise("TypeError")>>)
    ELSE <<>>

(* '*' + node.vararg.arg: the operand must be an arg node *)
signature_vararg_34(node, want_comma) ==
    IF node.vararg # None
    THEN write_comma(want_comma)
         \o (IF node.vararg.kind = "arg" THEN <<W("*" \o node.vararg.arg, None)>>
             ELSE <<Raise("AttributeError")>>)
    ELSE <<>>

signature_vararg(node, want_comma) ==
    IF Lookup(version, "signature_vararg") = V34
    THEN signature_vararg_34(node, want_comma)
    ELSE signature_vararg_Base(node, want_comma)

signature_kwarg_Base(node, want_comma) ==
    IF node.kwarg # None
    THEN write_comma(want_comma)
         \o (IF node.kwarg.kind = "str" THEN <<W("**" \o node.kwarg.s, None)>>
             ELSE <<Raise("TypeError")>>)
    ELSE <<>>

signature_kwarg_34(node, want_comma) ==
    IF node.kwarg # None
    THEN write_comma(want_comma)
         \o (IF node.kwarg.kind = "arg" THEN <<W("**" \o node.kwarg.arg, None)>>
             ELSE <<Raise("AttributeError")>>)
    ELSE <<>>

signature_kwarg(node, want_comma) ==
    IF Lookup(version, "signature_kwarg") = V34
    THEN signature_kwarg_34(node, want_comma)
    ELSE signature_kwarg_Base(node, want_comma)

(* the C7 mutant: the padding follows the defaults *)
padded_defaults_head(node) ==
    node.defaults \o [i \in 1..RangeLen(Len(node.args) - Len(node.defaults)) |-> None]

(* [None] * (len(node.args) - len(node.defaults)) + node.defaults *)
padded_defaults(node) ==
    [i \in 1..RangeLen(Len(node.args) - Len(node.defaults)) |-> None] \o node.defaults

Min(a, b) == IF a < b THEN a ELSE b

(* the ops of the first n pairs of zip(node.args, padding + node.defaults) *)
RECURSIVE signature_args(_, _, _)
signature_args(node, n, d) ==
    IF n = 0 THEN <<>>
    ELSE signature_args(node, n - 1, d)
         \o signature_arg(node.args[n], padded_defaults(node)[n], n > 1, d)

signature(node, d) ==
    LET n == Min(Len(node.args), Len(padded_defaults(node)))
        after_args == n > 0
        after_vararg == after_args \/ node.vararg # None
    IN signature_args(node, n, d)
       \o signature_vararg(node, after_args)
       \o signature_kwarg(node, after_vararg)

visit_Lambda(node, d) ==
    <<W("lambda ", None)>> \o signature(node.args, d)
    \o <<W(": ", None), V(node.body, d, NoPrev)>>

RECURSIVE decorators_from(_, _, _)
decorators_from(list, i, d) ==
    IF i > Len(list) THEN <<>>
    ELSE <<NL(list[i]), W("@", None), V(list[i], d, NoPrev)>>
         \o decorators_from(list, i + 1, d)

decorators(node, d) == decorators_from(node.decorator_list, 1, d)

(* ' '.join(prefixes) for at most one prefix *)
prefixes_ops(prefixes) ==
    <<W(IF prefixes = <<>> THEN "" ELSE prefixes[1], None)>>
    \o (IF prefixes # <<>> THEN <<W(" ", None)>> ELSE <<>>)

function_definition(node, prefixes, d) ==
    decorators(node, d) \o <<NL(node)>> \o prefixes_ops(prefixes)
    \o <<W("def " \o node.name \o "(", node)>> \o signature(node.args, d)
    \o <<W("):", None)>> \o body(node.body, d)

visit_FunctionDef_Base(node, d) == function_definition(node, <<>>, d)

visit_FunctionDef_30(node, d) ==
    decorators(node, d)
    \o <<NL(node), W("def " \o node.name \o "(", node)>> \o signature(node.args, d)
    \o <<W(")", None)>>
    \o (IF is_node_args_valid(node, "returns")
        THEN <<W(" -> ", None), V(node.returns, d, NoPrev)>> ELSE <<>>)
    \o <<W(":", None)>> \o body(node.body, d)

visit_FunctionDef(node, d) ==
    IF Lookup(version, "visit_FunctionDef") = V30 THEN visit_FunctionDef_30(node, d)
    ELSE visit_FunctionDef_Base(node, d)

visit_AsyncFunctionDef(node, d) == function_definition(node, <<"async">>, d)

(* paren_or_comma() before each entry: '(' on the first call, ', ' later *)
RECURSIVE class_args(_, _, _, _)
class_args(list, i, have_args, d) ==
    IF i > Len(list) THEN <<>>
    ELSE <<W(IF have_args \/ i > 1 THEN ", " ELSE "(", None), V(list[i], d, NoPrev)>>
         \o class_args(list, i + 1, have_args, d)

visit_ClassDef_Base(node, d) ==
    decorators(node, d)
    \o <<NL(node), W("class " \o node.name, node)>>
    \o class_args(node.bases, 1, FALSE, d)
    \o <<W(IF node.bases # <<>> THEN "):" ELSE ":", None)>>
    \o body(node.body, d)

(* the C10 mutant: the keyword arguments open a parenthesis of their own *)
visit_ClassDef_30_reopens(node, d) ==
    LET keywords == IF is_node_args_valid(node, "keywords") THEN node.keywords
                    ELSE <<>>
    IN decorators(node, d)
       \o <<NL(node), W("class " \o node.name, node)>>
       \o class_args(node.bases, 1, FALSE, d)
       \o class_args(keywords, 1, FALSE, d)
       \o <<W(IF node.bases # <<>> \/ keywords # <<>> THEN "):" ELSE ":", None)>>
       \o body(node.body, d)

visit_ClassDef_30(node, d) ==
    LET keywords == IF is_node_args_valid(node, "keywords") THEN node.keywords
                    ELSE <<>>
    IN decorators(node, d)
       \o <<NL(node), W("class " \o node.name, node)>>
       \o class_args(node.bases, 1, FALSE, d)
       \o class_args(keywords, 1, node.bases # <<>>, d)
       \o <<W(IF node.bases # <<>> \/ keywords # <<>> THEN "):" ELSE ":", None)>>
       \o body(node.body, d)

visit_ClassDef(node, d) ==
    IF Lookup(version, "visit_ClassDef") = V30 THEN visit_ClassDef_30(node, d)
    ELSE visit_ClassDef_Base(node, d)

(* visit(x) for each x of the list, write_comma() before each *)
RECURSIVE comma_visits(_, _, _, _)
comma_visits(list, i, want_comma, d) ==
    IF i > Len(list) THEN <<>>
    ELSE write_comma(want_comma \/ i > 1) \o <<V(list[i], d, NoPrev)>>
         \o comma_visits(list, i + 1, want_comma, d)

call_signature_Base(node, d) ==
    LET after_args == node.args # <<>>
        after_keywords == after_args \/ node.keywords # <<>>
        starargs == is_node_args_valid(node, "starargs")
        after_starargs == after_keywords \/ starargs
    IN comma_visits(node.args, 1, FALSE, d)
       \o comma_visits(node.keywords, 1, after_args, d)
       \o (IF starargs
           THEN write_comma(after_keywords)
                \o <<W("*", None), V(node.starargs, d, NoPrev)>>
           ELSE <<>>)
       \o (IF is_node_args_valid(node, "kwargs")
           THEN write_comma(after_starargs)
                \o <<W("**", None), V(node.kwargs, d, NoPrev)>>
           ELSE <<>>)

(* if keyword.arg: a name that is neither None nor empty *)
keyword_is_named(keyword) == keyword.arg # NoArg /\ keyword.arg # ""

call_signature_35(node, d) ==
    LET is_starred(arg) == arg.kind = "Starred"
        not_starred(arg) == arg.kind # "Starred"
        not_named(keyword) == ~keyword_is_named(keyword)
        plain == SelectSeq(node.args, not_starred)
        named == SelectSeq(node.keywords, keyword_is_named)
        starargs == SelectSeq(node.args, is_starred)
        kwargs == SelectSeq(node.keywords, not_named)
    IN comma_visits(plain, 1, FALSE, d)
       \o comma_visits(named, 1, plain # <<>>, d)
       \o comma_visits(starargs, 1, plain # <<>> \/ named # <<>>, d)
       \o comma_visits(kwargs, 1, plain # <<>> \/ named # <<>> \/ starargs # <<>>, d)

(* the C9 mutant: the Python35 override does not take effect *)
call_signature_list_order(node, d) == call_signature_Base(node, d)

call_signature(node, d) ==
    IF Lookup(version, "call_signature") = V35 THEN call_signature_35(node, d)
    ELSE call_signature_Base(node, d)

visit_Call(node, d) ==
    <<V(node.func, d, NoPrev), W("(", None)>> \o call_signature(node, d)
    \o <<W(")", None)>>

visit_Await(node, d) ==
    <<W("await ", None)>>
    \o (IF is_node_args_valid(node, "value") THEN <<V(node.value, d, NoPrev)>>
        ELSE <<>>)

visit_YieldFrom(node, d) == <<W("yield from ", None), V(node.value, d, NoPrev)>>

(* str(node.value) for the constants True, False and None *)
visit_NameConstant(node, d) == <<W(node.value, None)>>

visit_FormattedValue(node, d) ==
    IF is_node_args_valid(node, "value")
    THEN <<W("{", None), V(node.value, d, NoPrev), W("}", None)>>
    ELSE <<>>

(* item.s.lstrip('\'').rstrip('\'') of a string without quotes is the string *)
RECURSIVE joined_items(_, _, _)
joined_items(values, i, d) ==
    IF i > Len(values) THEN <<>>
    ELSE (IF values[i].kind = "Str" THEN <<W(values[i].s, None)>>
          ELSE <<V(values[i], d, NoPrev)>>)
         \o joined_items(values, i + 1, d)

visit_JoinedStr(node, d) ==
    IF is_node_args_valid(node, "values")
    THEN <<W("f'", None)>> \o joined_items(node.values, 1, d) \o <<W("'", None)>>
    ELSE <<>>

visit_ExceptHandler(node, d) ==
    <<NL(node), W("except", None)>>
    \o (IF node.type # None
        THEN <<W(" ", None), V(node.type, d, NoPrev)>>
             \o (IF node.name # None
                 THEN <<W(" as ", None), V(node.name, d, NoPrev)>> ELSE <<>>)
        ELSE <<>>)
    \o <<W(":", None)>> \o body(node.body, d)

visit_Try(node, d) ==
    <<NL(node), W("try:", None)>> \o body(node.body, d)
    \o VisitAll(node.handlers, d)
    \o (IF node.finalbody # <<>>
        THEN <<NL(node), W("finally:", None)>> \o body(node.finalbody, d)
        ELSE <<>>)

visit_alias(node, d) ==
    <<W(node.name, None)>>
    \o (IF node.asname # NoArg THEN <<W(" as " \o node.asname, None)>> ELSE <<>>)

RECURSIVE import_items(_, _, _)
import_items(names, i, d) ==
    IF i > Len(names) THEN <<>>
    ELSE <<W("import ", None), V(names[i], d, NoPrev)>> \o import_items(names, i + 1, d)

visit_Import(node, d) == <<NL(node)>> \o import_items(node.names, 1, d)

(* for idx, item in enumerate(node.elts): ', ' before every item but the   *)
(* first                                                                   *)
RECURSIVE elts_visits(_, _, _)
elts_visits(elts, i, d) ==
    IF i > Len(elts) THEN <<>>
    ELSE (IF i - 1 # 0 THEN <<W(", ", None)>> ELSE <<>>)
         \o <<V(elts[i], d, NoPrev)>> \o elts_visits(elts, i + 1, d)

(* the C11 mutant: the closing text does not depend on the last index *)
visit_Tuple_closes_plainly(node, d) ==
    <<W("(", None)>> \o elts_visits(node.elts, 1, d) \o <<W(")", None)>>

(* idx is -1 without elements, the index of the last element otherwise;   *)
(* idx and ')' or ',)'                                                     *)
visit_Tuple(node, d) ==
    LET idx == Len(node.elts) - 1
    IN <<W("(", None)>> \o elts_visits(node.elts, 1, d)
       \o <<W(IF idx # 0 THEN ")" ELSE ",)", None)>>

sequence_visit(left, right, node, d) ==
    <<W(left, None)>> \o elts_visits(node.elts, 1, d) \o <<W(right, None)>>

visit_List(node, d) == sequence_visit("[", "]", node, d)
visit_Set(node, d) == sequence_visit("{", "}", node, d)

-----------------------------------------------------------------------------
(* History variables *)

NoTag == [stmt |-> None]
NoRec == [op |-> "none"]

(* the fragments of the last output line *)
RECURSIVE LastLine(_)
LastLine(res) ==
    IF res = <<>> \/ res[Len(res)] = "\n" THEN <<>>
    ELSE Append(LastLine(SubSeq(res, 1, Len(res) - 1)), res[Len(res)])

(* what correct_line_number(node) did: c the lines of the buffer at the   *)
(* call, cRec the lines when add_missing_lines ran, added the fragments    *)
(* it appended, missing the line breaks add_missing_lines wrote            *)
Reconciled(op, node, pending, after) ==
    LET r1 == IF pending THEN write_newline(result, indentation) ELSE result
    IN [op |-> op,
        hasLine |-> node # None /\ is_node_args_valid(node, "lineno"),
        L |-> node.lineno,
        c |-> Lines(result),
        empty |-> result = <<>>,
        cRec |-> Lines(r1),
        added |-> SubSeq(after, Len(result) + 1, Len(after)),
        missing |-> CountNl(after) - CountNl(r1),
        kept |-> SubSeq(after, 1, Len(result)) = result,
        after |-> Lines(after),
        ind |-> indentation]

(* the helper rules a handler looks up on the visitor *)
Helpers(kind) ==
    CASE kind \in {"Lambda", "FunctionDef", "AsyncFunctionDef"} ->
            {"signature", "signature_arg", "signature_vararg", "signature_kwarg"}
      [] kind = "Call" -> {"call_signature"}
      [] OTHER -> {}

Resolved(kind) ==
    {[rule |-> r, cls |-> Lookup(version, r)] : r \in {"visit_" \o kind} \cup Helpers(kind)}

NoDepth == 0 - 1
NoBlock == [depth |-> NoDepth, prefix |-> ""]
NoBlocks == [open |-> <<>>, closed |-> NoBlock]

(* what body() finds on entry: the indentation and the prefix of the       *)
(* output line that holds the header of the block                          *)
Entered ==
    [depth |-> indentation,
     prefix |-> IF LastLine(result) = <<>> THEN "" ELSE Head(LastLine(result))]

Tagged(op) ==
    IF op.node.kind \in StmtKinds
    THEN [stmt |-> op.node, depth |-> op.depth, prev |-> op.prev, E |-> Lines(result)]
    ELSE pendingTag

-----------------------------------------------------------------------------
(* The render *)

(* No class overrides a rule that renders a layout tree, apart from        *)
(* visit_Name, so these are rendered under the first and the last class    *)
LayoutVersions == {V26, V36}

Init ==
    /\ \/ root \in LayoutTrees /\ version \in LayoutVersions
       \/ root \in DialectSensitiveTrees /\ version \in Versions
    /\ result = <<>>
    /\ indentation = 0
    /\ new_line = FALSE
    /\ stack = <<V(root, 0, NoPrev)>>
    /\ status = "running"
    /\ output = ""
    /\ pendingTag = NoTag
    /\ mark = NoTag
    /\ rec = NoRec
    /\ applied = {}
    /\ fell = {}
    /\ blocks = NoBlocks

Top == Head(stack)

Running(op) == status = "running" /\ stack # <<>> /\ Top.op = op

(* write(x, node) *)
Write ==
    /\ Running("write")
    /\ LET c == correct_line_number(result, indentation, new_line, Top.node)
       IN /\ result' = Append(c.result, Top.x)
          /\ new_line' = c.new_line
          /\ rec' = Reconciled("write", Top.node, new_line, c.result)
          /\ mark' = IF pendingTag # NoTag
                     THEN [stmt |-> pendingTag.stmt, depth |-> pendingTag.depth,
                           prev |-> pendingTag.prev, E |-> pendingTag.E,
                           start |-> Lines(Append(c.result, Top.x)),
                           prefix |-> Join(LastLine(c.result))]
                     ELSE mark
    /\ pendingTag' = NoTag
    /\ stack' = Tail(stack)
    /\ UNCHANGED <<root, version, indentation, status, output, applied, fell, blocks>>

(* newline(node) *)
Newline ==
    /\ Running("newline")
    /\ LET c == correct_line_number(result, indentation, TRUE, Top.node)
       IN /\ result' = c.result
          /\ new_line' = c.new_line
          /\ rec' = Reconciled("newline", Top.node, TRUE, c.result)
    /\ stack' = Tail(stack)
    /\ UNCHANGED <<root, version, indentation, status, output, pendingTag, mark,
                   applied, fell, blocks>>

(* body(): self.new_line = True; self.indentation += 1 *)
EnterBody ==
    /\ Running("body_enter")
    /\ new_line' = TRUE
    /\ indentation' = indentation + 1
    /\ blocks' = [blocks EXCEPT !.open = <<Entered>> \o @]
    /\ stack' = Tail(stack)
    /\ UNCHANGED <<root, version, result, status, output, pendingTag, mark, rec,
                   applied, fell>>

(* body(): self.indentation -= 1 *)
ExitBody ==
    /\ Running("body_exit")
    /\ indentation' = indentation - 1
    /\ blocks' = [open |-> Tail(blocks.open), closed |-> Head(blocks.open)]
    /\ stack' = Tail(stack)
    /\ UNCHANGED <<root, version, result, new_line, status, output, pendingTag, mark,
                   rec, applied, fell>>

(* visit(node): the handler of the node's kind, when the class has one *)
Dispatch(kind, ops) ==
    /\ Running("visit")
    /\ Top.node.kind = kind
    /\ HasRule("visit_" \o kind)
    /\ stack' = ops \o Tail(stack)
    /\ applied' = Resolved(kind)
    /\ pendingTag' = Tagged(Top)
    /\ UNCHANGED <<root, version, result, indentation, new_line, status, output,
                   mark, rec, fell, blocks>>

VisitPass == Dispatch("Pass", visit_Pass(Top.node, Top.depth))
VisitExpr == Dispatch("Expr", visit_Expr(Top.node, Top.depth))
VisitName == Dispatch("Name", visit_Name(Top.node, Top.depth))
VisitStr == Dispatch("Str", visit_Str(Top.node, Top.depth))
VisitIf == Dispatch("If", visit_If(Top.node, Top.depth))
VisitNum == Dispatch("Num", visit_Num(Top.node, Top.depth))
VisitArg == Dispatch("arg", visit_arg(Top.node, Top.depth))
VisitStarred == Dispatch("Starred", visit_Starred(Top.node, Top.depth))
VisitKeyword == Dispatch("keyword", visit_keyword(Top.node, Top.depth))
VisitLambda == Dispatch("Lambda", visit_Lambda(Top.node, Top.depth))
VisitFunctionDef == Dispatch("FunctionDef", visit_FunctionDef(Top.node, Top.depth))
VisitAsyncFunctionDef ==
    Dispatch("AsyncFunctionDef", visit_AsyncFunctionDef(Top.node, Top.depth))
VisitClassDef == Dispatch("ClassDef", visit_ClassDef(Top.node, Top.depth))
VisitCall == Dispatch("Call", visit_Call(Top.node, Top.depth))
VisitAwait == Dispatch("Await", visit_Await(Top.node, Top.depth))
VisitYieldFrom == Dispatch("YieldFrom", visit_YieldFrom(Top.node, Top.depth))
VisitNameConstant == Dispatch("NameConstant", visit_NameConstant(Top.node, Top.depth))
VisitFormattedValue ==
    Dispatch("FormattedValue", visit_FormattedValue(Top.node, Top.depth))
VisitJoinedStr == Dispatch("JoinedStr", visit_JoinedStr(Top.node, Top.depth))
VisitExceptHandler == Dispatch("ExceptHandler", visit_ExceptHandler(Top.node, Top.depth))
VisitTry == Dispatch("Try", visit_Try(Top.node, Top.depth))
VisitImport == Dispatch("Import", visit_Import(Top.node, Top.depth))
VisitAlias == Dispatch("alias", visit_alias(Top.node, Top.depth))
VisitTuple == Dispatch("Tuple", visit_Tuple(Top.node, Top.depth))
VisitList == Dispatch("List", visit_List(Top.node, Top.depth))
VisitSet == Dispatch("Set", visit_Set(Top.node, Top.depth))

(* the C1 mutant: a node kind without a rule ends the render with an error *)
GenericVisit_raises ==
    /\ Running("visit")
    /\ ~HasRule("visit_" \o Top.node.kind)
    /\ status' = "error"
    /\ stack' = <<>>
    /\ fell' = fell \cup {Top.node.kind}
    /\ UNCHANGED <<root, version, result, indentation, new_line, output, pendingTag,
                   mark, rec, applied, blocks>>

(* visit(node) when no class of the chain has a handler: generic_visit *)
GenericVisit ==
    /\ Running("visit")
    /\ ~HasRule("visit_" \o Top.node.kind)
    /\ stack' = generic_visit(Top.node, Top.depth) \o Tail(stack)
    /\ applied' = Resolved(Top.node.kind)
    /\ fell' = fell \cup {Top.node.kind}
    /\ pendingTag' = Tagged(Top)
    /\ UNCHANGED <<root, version, result, indentation, new_line, status, output,
                   mark, rec, blocks>>

(* an exception leaves the render: to_source returns nothing *)
RaiseError ==
    /\ Running("raise")
    /\ status' = "error"
    /\ stack' = <<>>
    /\ UNCHANGED <<root, version, result, indentation, new_line, output, pendingTag,
                   mark, rec, applied, fell, blocks>>

(* to_source: return ''.join(generator.result) *)
Finish ==
    /\ status = "running"
    /\ stack = <<>>
    /\ status' = "done"
    /\ output' = Join(result)
    /\ UNCHANGED <<root, version, result, indentation, new_line, stack, pendingTag,
                   mark, rec, applied, fell, blocks>>

Next ==
    \/ Write
    \/ Newline
    \/ EnterBody
    \/ ExitBody
    \/ VisitPass
    \/ VisitExpr
    \/ VisitName
    \/ VisitStr
    \/ VisitIf
    \/ VisitNum
    \/ VisitArg
    \/ VisitStarred
    \/ VisitKeyword
    \/ VisitLambda
    \/ VisitFunctionDef
    \/ VisitAsyncFunctionDef
    \/ VisitClassDef
    \/ VisitCall
    \/ VisitAwait
    \/ VisitYieldFrom
    \/ VisitNameConstant
    \/ VisitFormattedValue
    \/ VisitJoinedStr
    \/ VisitExceptHandler
    \/ VisitTry
    \/ VisitImport
    \/ VisitAlias
    \/ VisitTuple
    \/ VisitList
    \/ VisitSet
    \/ GenericVisit
    \/ RaiseError
    \/ Finish

Spec == Init /\ [][Next]_vars

-----------------------------------------------------------------------------
(* Claims *)

(* the class that introduces the rule of a node kind no earlier class has *)
IntroducedIn(kind) ==
    CASE kind \in {"Try", "YieldFrom"} -> V33
      [] kind = "NameConstant" -> V34
      [] kind \in {"AsyncFunctionDef", "Await"} -> V35
      [] kind \in {"JoinedStr", "FormattedValue"} -> V36
      [] OTHER -> Base

LaterKinds(v) == {k \in fell : IntroducedIn(k) > v}

(* C1, as claimed: a render under class V of a tree that holds a node of a *)
(* kind only a later class has a rule for never returns text               *)
C1_UnsupportedKindFails == status = "done" => LaterKinds(version) = {}

(* the text of the expression trees of DialectTrees: the rule's own text   *)
(* from the class that introduces it on, the text of the child nodes alone *)
(* under every earlier class                                               *)
C1_Text(node, v) ==
    CASE node.kind = "Await" -> IF v >= V35 THEN "await x" ELSE "x"
      [] node.kind = "YieldFrom" -> IF v >= V33 THEN "yield from x" ELSE "x"
      [] node.kind = "NameConstant" -> IF v >= V34 THEN "True" ELSE ""
      [] node.kind = "FormattedValue" -> IF v >= V36 THEN "{x}" ELSE "x"
      [] node.kind = "JoinedStr" -> IF v >= V36 THEN "f's{x}'" ELSE "'s'x"

C1_Kinds == {"Await", "YieldFrom", "NameConstant", "FormattedValue", "JoinedStr"}

(* C1, amended: a node kind without a rule in class V does not fail the    *)
(* render: visit falls through to generic_visit, which writes nothing for  *)
(* the node itself and renders its child nodes in field order; from the    *)
(* class that introduces the rule on, the rule renders the node            *)
C1_FallsThroughToGenericVisit ==
    /\ LaterKinds(version) # {} => status # "error"
    /\ \A k \in fell : IntroducedIn(k) = Base \/ IntroducedIn(k) > version
    /\ root.kind \in C1_Kinds /\ status = "done" => output = C1_Text(root, version)

(* C1, witness: Await under Python34 has rendered as its operand alone *)
C1_Witness ==
    /\ status = "done" /\ version = V34 /\ root.kind = "Await"
    /\ "Await" \in fell /\ output = "x"

(* a statement that docstring() renders: its value is a string literal *)
IsBareString(stmt) == stmt.kind = "Expr" /\ stmt.value.kind = "Str"

(* C2, as claimed: in a tree whose node kinds all have a rule, the text of *)
(* every statement starts on an output line of its own, after exactly as   *)
(* many indent units as the statement's nesting depth in the tree          *)
C2_OwnLineAtDepth ==
    root \in LayoutTrees /\ mark # NoTag =>
        mark.prefix = Times(IndentWith, mark.depth)

(* the blank output lines between the line E where the preceding          *)
(* statement's text ended and the line where this statement's text starts  *)
BlankLines(m) == m.start - m.E - 1

HasEarlierSibling(m) ==
    m # NoTag /\ m.prev # NoPrev /\ m.prev # NoLine /\ m.prev < m.stmt.lineno

NoBareStrings(node) ==
    node.kind = "Module" /\ \A i \in DOMAIN node.body : ~IsBareString(node.body[i])

(* C3, as claimed: sibling statements on lines L1 < L2 are L2 - L1 - 1     *)
(* blank output lines apart (stated for the trees without the string       *)
(* statements of C2)                                                       *)
C3_BlankLinesFromLineNumbers ==
    NoBareStrings(root) /\ HasEarlierSibling(mark) =>
        BlankLines(mark) = mark.stmt.lineno - mark.prev - 1

Max(a, b) == IF a > b THEN a ELSE b

(* C3, amended: a statement S2 that opens with newline(S2) (any but a bare *)
(* string statement or a decorated definition) starts on output line       *)
(* max(E + 1, L2), E being the output line on which its preceding          *)
(* sibling's text ended: max(0, L2 - E - 1) blank lines, which is          *)
(* L2 - L1 - 1 when the sibling's text ended on line L1                    *)
C3_BlankLinesFromOutputLine ==
    HasEarlierSibling(mark) /\ ~IsBareString(mark.stmt) =>
        /\ mark.start = Max(mark.E + 1, mark.stmt.lineno)
        /\ BlankLines(mark) = Max(0, mark.stmt.lineno - mark.E - 1)
        /\ mark.E = mark.prev => BlankLines(mark) = mark.stmt.lineno - mark.prev - 1

(* C3, witness: a statement on line 3 follows an if statement of line 1    *)
(* whose text ended on output line 2: no blank line, not one               *)
C3_Witness ==
    /\ HasEarlierSibling(mark) /\ ~IsBareString(mark.stmt)
    /\ mark.prev = 1 /\ mark.E = 2 /\ mark.stmt.lineno = 3 /\ BlankLines(mark) = 0

Reconciles == rec.op # "none" /\ rec.hasLine

(* n times a line break followed by the indentation *)
RECURSIVE Breaks(_, _)
Breaks(n, ind) ==
    IF n <= 0 THEN <<>> ELSE <<"\n", Times(IndentWith, ind)>> \o Breaks(n - 1, ind)

(* C4, as claimed: a node on line L > c gets exactly L - c line breaks,    *)
(* each followed by the indentation, and the output then is on line L      *)
C4_LineBreaksToNode ==
    Reconciles /\ rec.L > rec.c =>
        /\ CountNl(rec.added) = rec.L - rec.c
        /\ rec.added = Breaks(rec.L - rec.c, rec.ind)
        /\ rec.after = rec.L

(* C4, amended: into a buffer that holds fragments the L - c line breaks   *)
(* are written, each followed by the indentation; into the empty buffer    *)
(* (c = 0) the indentation alone and then L - 1 line breaks, each followed *)
(* by the indentation; either way the output then is on line L             *)
C4_LineBreaksToNodeFromLine1 ==
    Reconciles /\ rec.L > rec.c =>
        /\ rec.added = IF rec.empty
                       THEN <<Times(IndentWith, rec.ind)>> \o Breaks(rec.L - 1, rec.ind)
                       ELSE Breaks(rec.L - rec.c, rec.ind)
        /\ CountNl(rec.added) = IF rec.empty THEN rec.L - 1 ELSE rec.L - rec.c
        /\ rec.after = rec.L

(* C4, witness: the first write of a render, for a node on line 3, has     *)
(* written two line breaks                                                 *)
C4_Witness ==
    Reconciles /\ rec.empty /\ rec.L = 3 /\ CountNl(rec.added) = 2 /\ rec.after = 3

(* C5: a node whose line is not after the line the output has reached      *)
(* gets no line break from add_missing_lines (the write or newline         *)
(* completes with none), no fragment is taken back, and the line the       *)
(* output has reached never decreases                                      *)
C5_State ==
    Reconciles /\ rec.L <= rec.cRec =>
        rec.missing = 0 /\ rec.kept /\ rec.after >= rec.c

C5_Step ==
    /\ Lines(result') >= Lines(result)
    /\ Len(result') >= Len(result)
    /\ SubSeq(result', 1, Len(result)) = result

C5_NoNegativeReconciliation == [](C5_State) /\ [][C5_Step]_vars

(* C5, witness: the def line of a decorated function carries the line of   *)
(* its decorator, which the output has already passed                      *)
C5_Witness ==
    /\ root.kind = "FunctionDef" /\ root.decorator_list # <<>>
    /\ root.decorator_list[1].lineno = root.lineno
    /\ Reconciles /\ rec.op = "newline" /\ rec.L = root.lineno /\ rec.L < rec.cRec
    /\ rec.missing = 0

(* the classes up to v that define the rule themselves *)
Definers(v, rule) == {c \in Base..v : rule \in OwnRules(c)}

Latest(S) == CHOOSE c \in S : \A o \in S : o <= c

(* the definition the claim names: that of the latest class up to v that   *)
(* defines the rule, generic_visit when none does                          *)
LatestDefinition(v, rule) ==
    IF Definers(v, rule) = {} THEN NodeVisitor ELSE Latest(Definers(v, rule))

NoDelta == {V26, V27, V31, V32}

C6_State ==
    \A a \in applied :
        /\ a.cls = LatestDefinition(version, a.rule)
        /\ version \in NoDelta => a.cls = LatestDefinition(version - 1, a.rule)

(* C6: every rule a render under class V resolves, a visit_<Kind> rule or  *)
(* a helper, is the definition of the latest class up to V that defines    *)
(* it; a class without a rule of its own resolves every rule as its        *)
(* predecessor does; and the class never changes during a render           *)
C6_LatestDefinitionApplies == [](C6_State) /\ [][version' = version]_vars

(* C6, witness: under Python32, which defines nothing, a parameter has     *)
(* been rendered by the signature_arg of Python30                          *)
C6_Witness ==
    /\ version = V32
    /\ [rule |-> "signature_arg", cls |-> V30] \in applied
    /\ [rule |-> "signature_vararg", cls |-> Base] \in applied
    /\ \E i \in DOMAIN result : result[i] = ": "

(* the first place of a fragment in the buffer, 0 when it is not there *)
Place(frag) ==
    IF \E i \in DOMAIN result : result[i] = frag
    THEN CHOOSE i \in DOMAIN result : result[i] = frag /\ \A j \in 1..(i - 1) : result[j] # frag
    ELSE 0

Frag(i) == IF i \in DOMAIN result THEN result[i] ELSE "<end>"

HasSignature == root.kind \in {"Lambda", "FunctionDef"} /\ root \in SigTrees

(* C7: of the N positional parameters the first N - D are written without  *)
(* a default and the i-th of the D defaults directly follows parameter     *)
(* N - D + i as =default; the parameters keep their order                  *)
C7_DefaultsPairWithTail ==
    HasSignature /\ status = "done" =>
        LET args == root.args.args
            defaults == root.args.defaults
            N == Len(args)
            D == Len(defaults)
        IN \A i \in 1..N :
            LET p == Place(ParamNames[i])
            IN /\ p > 0
               /\ i > 1 => Place(ParamNames[i - 1]) < p
               /\ i <= N - D => Frag(p + 1) # "="
               /\ i > N - D =>
                    /\ Frag(p + 1) = "="
                    /\ Frag(p + 2) = repr_num(defaults[i - (N - D)].n)

(* C7, witness: two parameters and one default have rendered as a, b=1 *)
C7_Witness ==
    /\ HasSignature /\ status = "done" /\ root.kind = "Lambda"
    /\ Len(root.args.args) = 2 /\ Len(root.args.defaults) = 1
    /\ root.args.vararg = None /\ root.args.kwarg = None
    /\ output = "lambda a, b=1: x"

(* the fragments that open the parameters rendered, in the order claimed *)
Rendered(arguments) ==
    [i \in 1..Len(arguments.args) |-> ParamNames[i]]
    \o (IF arguments.vararg # None THEN <<"*args">> ELSE <<>>)
    \o (IF arguments.kwarg # None THEN <<"**kwargs">> ELSE <<>>)

Opening == IF root.kind = "Lambda" THEN "lambda " ELSE "def f("
Closing == IF root.kind = "Lambda" THEN {": "} ELSE {"):", ")"}

CountOf(frag) == Cardinality({i \in DOMAIN result : result[i] = frag})

(* C8: the k parameters rendered are written in the order positional,      *)
(* variadic-positional, variadic-keyword; the first directly follows the   *)
(* opening text, every other one directly follows a ', ', there are        *)
(* k - 1 separators in all and none for k = 0, where the closing text      *)
(* directly follows the opening one: ()                                    *)
C8_CommasBetweenParameters ==
    HasSignature /\ status = "done" =>
        LET params == Rendered(root.args)
            k == Len(params)
            open == Place(Opening)
        IN /\ open > 0
           /\ CountOf(", ") = IF k >= 1 THEN k - 1 ELSE 0
           /\ k = 0 => Frag(open + 1) \in Closing
           /\ \A j \in 1..k :
                /\ Place(params[j]) > 0
                /\ Frag(Place(params[j]) - 1) = IF j = 1 THEN Opening ELSE ", "
                /\ j > 1 => Place(params[j - 1]) < Place(params[j])

(* C8, witness: no positional parameter, both variadic ones *)
C8_Witness ==
    /\ HasSignature /\ status = "done" /\ root.kind = "FunctionDef"
    /\ root.args.args = <<>> /\ version = V27
    /\ output = "def f(*args, **kwargs):\n    pass"

(* the text of one call argument: a name, *name, name=value or **value *)
ArgumentText(x) ==
    CASE x.kind = "Name" -> x.id
      [] x.kind = "Starred" -> "*" \o x.value.id
      [] x.kind = "keyword" ->
            (IF x.arg # NoArg THEN x.arg \o "=" ELSE "**") \o x.value.id

RECURSIVE Separated(_)
Separated(texts) ==
    IF texts = <<>> THEN ""
    ELSE IF Len(texts) = 1 THEN texts[1]
    ELSE texts[1] \o ", " \o Separated(Tail(texts))

IsStarred(x) == x.kind = "Starred"
IsPlain(x) == x.kind # "Starred"
IsNamed(x) == x.arg # NoArg
IsSpread(x) == x.arg = NoArg

HasField(node, name) == name \in DOMAIN node /\ node[name] # None

(* the ordering claimed for the classes before Python35 *)
ListOrder(call) ==
    [i \in 1..Len(call.args) |-> ArgumentText(call.args[i])]
    \o [i \in 1..Len(call.keywords) |-> ArgumentText(call.keywords[i])]
    \o (IF HasField(call, "starargs") THEN <<"*" \o call.starargs.id>> ELSE <<>>)
    \o (IF HasField(call, "kwargs") THEN <<"**" \o call.kwargs.id>> ELSE <<>>)

TextsOf(list) == [i \in 1..Len(list) |-> ArgumentText(list[i])]

(* the ordering claimed for Python35 and Python36 *)
SpreadsLast(call) ==
    TextsOf(SelectSeq(call.args, IsPlain))
    \o TextsOf(SelectSeq(call.keywords, IsNamed))
    \o TextsOf(SelectSeq(call.args, IsStarred))
    \o TextsOf(SelectSeq(call.keywords, IsSpread))

(* C9: a call renders as f(...) with its arguments, each once, joined by   *)
(* one ', ' and none leading or trailing, in the one order of its class:   *)
(* before Python35 the positional arguments in list order, the keyword     *)
(* arguments in list order, *starargs, **kwargs; from Python35 on the      *)
(* arguments that are not starred, the named keywords, the starred         *)
(* arguments, the keyword spreads, each group in input order               *)
C9_CallArgumentOrder ==
    root.kind = "Call" /\ status = "done" =>
        output = "f(" \o Separated(IF version >= V35 THEN SpreadsLast(root)
                                   ELSE ListOrder(root)) \o ")"

(* C9, witness: under Python35 a starred argument listed first has been    *)
(* rendered after the plain argument and the named keyword                 *)
C9_Witness ==
    /\ root.kind = "Call" /\ status = "done" /\ version = V35
    /\ Len(root.args) = 2 /\ root.args[1].kind = "Starred"
    /\ output = "f(p2, k2=v2, *s1, **v1)"

(* scenario B: class C with the base Base1 and the keyword argument meta=M *)
ScenarioB == ClassDef("C", Bases(1), ClassKeywords(1), <<Pass(2)>>, <<>>, 1)

(* C10, as claimed: scenario B renders with the header                     *)
(* class C(Base1, meta=M): from Python30 on and returns no text under      *)
(* Python26 and Python27                                                   *)
C10_KeywordBaseOrFailure ==
    root = ScenarioB /\ status = "done" =>
        version >= V30 /\ output = "class C(Base1, meta=M):\n    pass"

(* the header claimed: the bases, then from Python30 on the keyword        *)
(* arguments, in one parenthesis that is left out when it is empty         *)
ClassHeader(node, v) ==
    LET items == [i \in 1..Len(node.bases) |-> node.bases[i].id]
                 \o (IF v >= V30 /\ "keywords" \in DOMAIN node
                     THEN TextsOf(node.keywords) ELSE <<>>)
    IN "class " \o node.name
       \o (IF items = <<>> THEN "" ELSE "(" \o Separated(items) \o ")") \o ":"

(* C10, amended: a class definition never fails to render; from Python30   *)
(* on its header lists the bases and then the keyword arguments, under     *)
(* Python26 and Python27 the bases alone, the keyword arguments left out:  *)
(* scenario B is class C(Base1, meta=M): there and class C(Base1): here    *)
C10_KeywordBaseOrOmitted ==
    root.kind = "ClassDef" /\ root \in ClassTrees =>
        /\ status # "error"
        /\ status = "done" =>
                output = ClassHeader(root, version) \o "\n" \o IndentWith \o "pass"
        /\ root = ScenarioB /\ status = "done" =>
                output = IF version >= V30 THEN "class C(Base1, meta=M):\n    pass"
                         ELSE "class C(Base1):\n    pass"

(* C10, witness: scenario B has rendered under Python30 *)
C10_Witness ==
    /\ root = ScenarioB /\ status = "done" /\ version = V30
    /\ output = "class C(Base1, meta=M):\n    pass"

EltTexts(node) == [i \in 1..Len(node.elts) |-> node.elts[i].id]

(* the text claimed for a sequence literal of n elements *)
SequenceText(node) ==
    LET n == Len(node.elts)
        inner == Separated(EltTexts(node))
    IN CASE node.kind = "Tuple" ->
                IF n = 0 THEN "()" ELSE IF n = 1 THEN "(" \o inner \o ",)"
                ELSE "(" \o inner \o ")"
         [] node.kind = "List" -> "[" \o inner \o "]"
         [] node.kind = "Set" -> "{" \o inner \o "}"

(* C11: a Tuple of n elements renders as () for n = 0, as (e1,) for n = 1  *)
(* and as (e1, ..., en) without a trailing comma for n >= 2; a List and a  *)
(* Set render their elements in brackets and braces with n - 1 separators  *)
(* ', ' (none for n <= 1) and no trailing comma                            *)
C11_SequenceLiterals ==
    root.kind \in SequenceKinds /\ status = "done" =>
        /\ output = SequenceText(root)
        /\ CountOf(", ") = IF Len(root.elts) >= 1 THEN Len(root.elts) - 1 ELSE 0
        /\ root.kind # "Tuple" \/ Len(root.elts) # 1 =>
                Frag(Len(result) - 1) # ", " /\ Frag(Len(result)) # ",)"

(* C11, witness: a Tuple of one element has rendered with its trailing     *)
(* comma                                                                   *)
C11_Witness ==
    /\ root.kind = "Tuple" /\ Len(root.elts) = 1 /\ status = "done"
    /\ output = "(e1,)"

AliasText(a) == a.name \o (IF a.asname # NoArg THEN " as " \o a.asname ELSE "")

IsImport(node) == node.kind = "Import" /\ Len(node.names) >= 1

(* C13, as claimed: an import statement of k >= 1 aliases renders as       *)
(* import and the k aliases, name or name as asname, in list order with    *)
(* k - 1 separators: the keyword is written once                           *)
C13_ImportKeywordOnce ==
    IsImport(root) /\ status = "done" =>
        /\ CountOf("import ") = 1
        /\ output = "import " \o Separated([i \in 1..Len(root.names) |->
                                                AliasText(root.names[i])])

(* the parts claimed to follow a parameter's name: the annotation, then    *)
(* the default                                                             *)
PartsAfterName(arg, default) ==
    (IF arg.annotation # None THEN <<": ", arg.annotation.id>> ELSE <<>>)
    \o (IF default # None THEN <<"=", repr_num(default.n)>> ELSE <<>>)

(* C14, as claimed: from Python30 on a positional parameter is written as  *)
(* its name, then ': annotation' if it has one, then '=default' if it has  *)
(* one (stated for the parameters of a function definition, the only ones  *)
(* the grammar lets carry an annotation)                                   *)
C14_AnnotationBeforeDefault ==
    HasSignature /\ root.kind = "FunctionDef" /\ status = "done" /\ version >= V30 =>
        \A i \in DOMAIN root.args.args :
            LET arg == root.args.args[i]
                parts == PartsAfterName(arg, padded_defaults(root.args)[i])
                p == Place(ParamNames[i])
            IN arg.kind = "arg" =>
                /\ p > 0
                /\ \A j \in DOMAIN parts : Frag(p + j) = parts[j]
                /\ parts = <<>> => Frag(p + 1) # "="

(* the headers that follow a block *)
BlockHeaders == {"else:", "elif ", "except", "finally:"}

WritesHeader ==
    Running("write") /\ Top.x \in BlockHeaders /\ blocks.closed # NoBlock

C12_State ==
    /\ indentation >= 0
    /\ status = "running" => indentation = Len(blocks.open)
    /\ status = "done" => indentation = 0 /\ blocks.open = <<>>
    /\ WritesHeader => indentation = blocks.closed.depth

C12_Step ==
    /\ Running("body_exit") => indentation' = Head(blocks.open).depth
    /\ WritesHeader => LastLine(result') = <<blocks.closed.prefix, Top.x>>

(* C12: the indentation depth is never negative; a body() call that        *)
(* returns leaves the depth as it found it, whatever the statement list    *)
(* and the nesting; the depth is 0 when to_source returns; and a header    *)
(* written after a block (else:, elif, except, finally:) starts a line     *)
(* with the depth and the line prefix of the header that opened the block  *)
C12_IndentationBalanced == [](C12_State) /\ [][C12_Step]_vars

(* C12, witness: the else: of an outer if statement is about to be written *)
(* at depth 0 after a nested if/else block has returned                    *)
C12_Witness ==
    /\ root \in BlockTrees /\ WritesHeader /\ Top.x = "else:"
    /\ blocks.closed.depth = 0 /\ indentation = 0 /\ blocks.open = <<>>
    /\ \E i \in DOMAIN result : result[i] = Times(IndentWith, 2)

====
